---- MODULE Spec2Model ----
(***************************************************************************)
(* Kolam path generation (utils/kolam_algorithms.py): the single-stroke    *)
(* walker KolamDrawV1 and the multi-stroke coverage walker KolamDrawV2.    *)
(* One instance is constructed for a grid size ND and generate_path is     *)
(* called on it twice, the second call reading the same stream of random   *)
(* draws as the first.                                                     *)
(*                                                                         *)
(* Random draws and the bias are in per-mille units: a draw u stands for   *)
(* the uniform value u/1000, sigmaref for the complexity sigmaref/1000.    *)
(* The stream of draws is a free prefix of at most MaxFree draws followed  *)
(* by one draw repeated for ever.                                          *)
(***************************************************************************)
EXTENDS Integers, Sequences, FiniteSets, TLC

\* Largest grid size explored by Spec (the application allows up to MAX_GRID_SIZE).
MaxND == 8
\* Length of the freely chosen prefix of the stream of random draws.
MaxFree == 3

\* config.py: the range the caller clamps the grid size to.
MIN_GRID_SIZE == 4
MAX_GRID_SIZE == 20

\* Grid sizes of Spec: the caller's range up to MaxND, and the degenerate
\* size 2 (a single interior cell) that the classes accept when constructed
\* directly.
GridSizes == {2} \cup (MIN_GRID_SIZE..MaxND)
\* Complexity values: the caller's default, 0.5.
Sigmas == {500}
\* Values a uniform draw takes: 0.0 and 0.999, the ends of its range.
UVals == {0, 999}

VARIABLES
    alg,          \* "V1" or "V2": the class of the instance
    ND,           \* self.ND
    sigmaref,     \* the bias argument of generate_path
    call,         \* number of generate_path calls started on the instance
    pc,           \* position in generate_path
    A, F,         \* gate and flag matrices of the running call
    path,         \* V1: path; V2: path of the stroke being grown
    isv, jsv,     \* current position
    theta,        \* V1 direction index
    step,         \* loop counter of the walk / stroke growth
    term,         \* how the V1 loop ended
    visited,      \* V2 visited matrix
    all_paths,    \* V2 accumulated path
    stroke_count, \* V2 accepted strokes
    start_i, start_j, \* V2 scan position
    strokes,      \* the cell sets of the accepted strokes, in order
    rng,          \* the stream of random draws
    fwd,          \* every toss of the running call succeeded
    coin,         \* the toss of the last step that advanced the position:
                  \* 1 or 0, and -1 when that step tossed no coin
    result,       \* value returned by the last finished call
    first         \* value returned by the first call

vars == <<alg, ND, sigmaref, call, pc, A, F, path, isv, jsv, theta, step, term,
          visited, all_paths, stroke_count, start_i, start_j, strokes, rng,
          fwd, coin, result, first>>

v1vars == <<path, isv, jsv, theta, step, term>>
v2vars == <<visited, all_paths, stroke_count, start_i, start_j, strokes>>

----------------------------------------------------------------------------
\* Helpers

Abs(x) == IF x < 0 THEN -x ELSE x

Min(a, b) == IF a < b THEN a ELSE b

Range(s) == {s[k] : k \in 1..Len(s)}

Grid(n) == (0..n) \X (0..n)

\* self.Nx
Nx(n) == n + 1

\* self.A1, self.F1
A1(n) == [c \in Grid(n) |-> 99]

F1(n) == [c \in Grid(n) |-> 1]

\* Variant: one iteration more than self.Ns
V1NsOneMore(n) == (2 * (n * n) + 1) * 5 + 1

\* self.Ns of KolamDrawV1
V1Ns(n) == (2 * (n * n) + 1) * 5

\* self.Ns of KolamDrawV2
V2Ns(n) == 2 * (n * n + 1) + 5

OnBorder(c, n) == c[1] = 0 \/ c[2] = 0 \/ c[1] = Nx(n) - 1 \/ c[2] = Nx(n) - 1

\* numpy indexing M[i, j] of an Nx x Nx matrix: an index in -Nx..-1 counts
\* from the end, any other index outside 0..Nx-1 raises IndexError.
Indexable(i, j, n) == i \in -Nx(n)..(Nx(n) - 1) /\ j \in -Nx(n)..(Nx(n) - 1)

At(M, i, j, n) == M[<<i % Nx(n), j % Nx(n)>>]

\* [[ND//2, ND//2]]
Center(n) == <<n \div 2, n \div 2>>

----------------------------------------------------------------------------
\* The stream of random draws

\* The next draw of stream s with the stream after it: a recorded draw, a
\* free draw while the prefix lasts, the repeated draw afterwards.
Pull(s) ==
    IF s.rd < Len(s.tape)
    THEN {[u |-> s.tape[s.rd + 1], s |-> [s EXCEPT !.rd = @ + 1]]}
    ELSE IF s.free > 0
    THEN {[u |-> v, s |-> [s EXCEPT !.tape = Append(@, v), !.rd = @ + 1,
                                    !.free = @ - 1]] : v \in UVals}
    ELSE {[u |-> s.tail, s |-> s]}

\* toss: 1 if the uniform draw exceeds the bias
toss(u, bias) == IF u > bias THEN 1 ELSE 0

\* np.random.randint(n) read off the uniform draw u
RandIndex(u, n) == (u * n) \div 1000

----------------------------------------------------------------------------
\* KolamDrawV1

\* is_inside_boundary for a boundary type other than the diamond
is_inside_boundary_none(i, j, n) == TRUE

\* The diamond with radius ND in place of ND // 2
is_inside_boundary_wide(i, j, n) == Abs(i - n \div 2) + Abs(j - n \div 2) <= n

is_inside_boundary(i, j, n) == Abs(i - n \div 2) + Abs(j - n \div 2) <= n \div 2

ResetGateMatrixV1(n) ==
    [A |-> [c \in Grid(n) |-> IF OnBorder(c, n) THEN 0 ELSE A1(n)[c]],
     F |-> [c \in Grid(n) |-> IF OnBorder(c, n) THEN 0 ELSE F1(n)[c]]]

directions == <<<<1, 1>>, <<1, -1>>, <<-1, -1>>, <<-1, 1>>>>

\* Variant: the column offset is dropped
xyngStraight(i, j, th) == <<i + directions[(th % 4) + 1][1], j>>

xyng(i, j, th) == <<i + directions[(th % 4) + 1][1], j + directions[(th % 4) + 1][2]>>

\* Variant: the length threshold 1 in place of 10
LoopDetectedEarly(p, pos) == Len(p) > 1 /\ pos = p[1]

\* len(path) > 10 and [isv, jsv] == path[0]
LoopDetected(p, pos) == Len(p) > 10 /\ pos = p[1]

\* Variant: the path as recorded, without the fallback
ResultOfRaw(p, n) == p

\* np.array(path) if path else np.array([[ND//2, ND//2]])
ResultOf(p, n) == IF p # <<>> THEN p ELSE <<Center(n)>>

V1Begin ==
    /\ pc = "idle"
    /\ alg = "V1"
    /\ call' = call + 1
    /\ A' = ResetGateMatrixV1(ND).A
    /\ F' = ResetGateMatrixV1(ND).F
    /\ path' = <<>>
    /\ isv' = ND \div 2
    /\ jsv' = ND \div 2
    /\ theta' = 0
    /\ step' = 0
    /\ term' = "none"
    /\ fwd' = TRUE
    /\ coin' = -1
    /\ pc' = "v1_loop"
    /\ UNCHANGED <<alg, ND, sigmaref, rng, result, first>>
    /\ UNCHANGED v2vars

\* One iteration of the for loop of generate_path.
V1Iter ==
    /\ pc = "v1_loop"
    /\ UNCHANGED <<alg, ND, sigmaref, call, A, F, first>>
    /\ UNCHANGED v2vars
    /\ IF ~is_inside_boundary(isv, jsv, ND)
       THEN /\ pc' = "v1_end"
            /\ term' = "OutOfBounds"
            /\ UNCHANGED <<path, isv, jsv, theta, step, rng, fwd, coin, result>>
       ELSE IF ~Indexable(isv, jsv, ND)
       THEN \* A[isv, jsv] raises; the except clause returns the centre
            /\ path' = Append(path, <<isv, jsv>>)
            /\ pc' = "returned"
            /\ term' = "Exception"
            /\ result' = <<Center(ND)>>
            /\ UNCHANGED <<isv, jsv, theta, step, rng, fwd, coin>>
       ELSE \E d \in (IF At(A, isv, jsv, ND) > 0 THEN Pull(rng)
                      ELSE {[u |-> 0, s |-> rng]}) :
            LET open == At(A, isv, jsv, ND) > 0
                p1 == Append(path, <<isv, jsv>>)
                th == IF open
                      THEN IF toss(d.u, sigmaref) = 1 THEN (theta + 1) % 4
                           ELSE (theta - 1) % 4
                      ELSE theta
                nxt == xyng(isv, jsv, th)
            IN  /\ path' = p1
                /\ theta' = th
                /\ isv' = nxt[1]
                /\ jsv' = nxt[2]
                /\ rng' = d.s
                /\ fwd' = (fwd /\ (open => toss(d.u, sigmaref) = 1))
                /\ coin' = (IF open THEN toss(d.u, sigmaref) ELSE -1)
                /\ result' = result
                /\ IF LoopDetected(p1, nxt)
                   THEN /\ pc' = "v1_end"
                        /\ term' = "LoopDetected"
                        /\ step' = step
                   ELSE /\ step' = step + 1
                        /\ pc' = IF step + 1 < V1Ns(ND) THEN "v1_loop" ELSE "v1_end"
                        /\ term' = IF step + 1 < V1Ns(ND) THEN term ELSE "Exhausted"

V1Return ==
    /\ pc = "v1_end"
    /\ result' = ResultOf(path, ND)
    /\ pc' = "returned"
    /\ UNCHANGED <<alg, ND, sigmaref, call, A, F, rng, fwd, coin, first>>
    /\ UNCHANGED v1vars
    /\ UNCHANGED v2vars

----------------------------------------------------------------------------
\* KolamDrawV2

\* Variant: the diagonal loop stops one cell short.
ResetGateMatrixV2Short(n) ==
    LET diag(c) == c[1] \in 1..(Nx(n) - 3) /\ (c[2] = c[1] \/ c[2] = Nx(n) - 1 - c[1])
    IN  [A |-> [c \in Grid(n) |-> IF diag(c) THEN 1
                                  ELSE IF OnBorder(c, n) THEN 0 ELSE A1(n)[c]],
         F |-> [c \in Grid(n) |-> IF diag(c) THEN 0
                                  ELSE IF OnBorder(c, n) THEN 0 ELSE F1(n)[c]]]

\* Variant: the cells of the two diagonals are closed
ResetGateMatrixV2Closed(n) ==
    LET diag(c) == c[1] \in 1..(Nx(n) - 2) /\ (c[2] = c[1] \/ c[2] = Nx(n) - 1 - c[1])
    IN  [A |-> [c \in Grid(n) |-> IF diag(c) THEN 0
                                  ELSE IF OnBorder(c, n) THEN 0 ELSE A1(n)[c]],
         F |-> [c \in Grid(n) |-> IF diag(c) THEN 0
                                  ELSE IF OnBorder(c, n) THEN 0 ELSE F1(n)[c]]]

ResetGateMatrixV2(n) ==
    LET diag(c) == c[1] \in 1..(Nx(n) - 2) /\ (c[2] = c[1] \/ c[2] = Nx(n) - 1 - c[1])
    IN  [A |-> [c \in Grid(n) |-> IF diag(c) THEN 1
                                  ELSE IF OnBorder(c, n) THEN 0 ELSE A1(n)[c]],
         F |-> [c \in Grid(n) |-> IF diag(c) THEN 0
                                  ELSE IF OnBorder(c, n) THEN 0 ELSE F1(n)[c]]]

\* Variant: the matrix is created once per instance and kept between calls
NewVisitedKept(n) == IF call = 0 THEN [c \in Grid(n) |-> 0] ELSE visited

\* np.zeros((Nx, Nx)) of generate_path
NewVisited(n) == [c \in Grid(n) |-> 0]

\* Variant: the diagonal neighbours are scanned before the orthogonal ones
directions8Diagonal ==
    <<<<1, 1>>, <<-1, -1>>, <<1, -1>>, <<-1, 1>>, <<0, 1>>, <<1, 0>>, <<0, -1>>, <<-1, 0>>>>

directions8 ==
    <<<<0, 1>>, <<1, 0>>, <<0, -1>>, <<-1, 0>>, <<1, 1>>, <<-1, -1>>, <<1, -1>>, <<-1, 1>>>>

\* The test of get_valid_moves on one neighbour.
\* Variant: a cell of the stroke being grown is no valid move either
ValidMoveFresh(c, M, vis, n) ==
    /\ 0 < c[1] /\ c[1] < Nx(n) - 1
    /\ 0 < c[2] /\ c[2] < Nx(n) - 1
    /\ vis[c] = 0
    /\ M[c] > 0
    /\ c \notin Range(path)

ValidMove(c, M, vis, n) ==
    /\ 0 < c[1] /\ c[1] < Nx(n) - 1
    /\ 0 < c[2] /\ c[2] < Nx(n) - 1
    /\ vis[c] = 0
    /\ M[c] > 0

get_valid_moves(i, j, M, vis, n) ==
    LET nb(k) == <<i + directions8[k][1], j + directions8[k][2]>>
    IN  SelectSeq([k \in 1..8 |-> nb(k)], LAMBDA c : ValidMove(c, M, vis, n))

\* min(10, self.ND)
max_strokes(n) == Min(10, n)

\* Variant: the cap test with > in place of >=
CapReachedLate(sc, n) == sc > max_strokes(n)

\* if stroke_count >= max_strokes: break
CapReached(sc, n) == sc >= max_strokes(n)

\* Variant: only the first cell of the stroke is marked
MarkVisitedFirst(vis, p, n) ==
    [c \in Grid(n) |-> IF c = p[1] THEN 1 ELSE vis[c]]

\* for point in path: visited[i, j] = 1
MarkVisited(vis, p, n) ==
    [c \in Grid(n) |-> IF c \in Range(p) THEN 1 ELSE vis[c]]

\* Variant: every stroke that recorded a point is accepted
AcceptedAny(p) == Len(p) > 0

\* if len(path) > 3
Accepted(p) == Len(p) > 3

V2Begin ==
    /\ pc = "idle"
    /\ alg = "V2"
    /\ call' = call + 1
    /\ A' = ResetGateMatrixV2(ND).A
    /\ F' = ResetGateMatrixV2(ND).F
    /\ all_paths' = <<>>
    /\ visited' = NewVisited(ND)
    /\ stroke_count' = 0
    /\ strokes' = <<>>
    /\ start_i' = 1
    /\ start_j' = 1
    /\ fwd' = TRUE
    /\ coin' = -1
    /\ pc' = IF 1 <= Nx(ND) - 2 THEN "v2_scan" ELSE "v2_end"
    /\ UNCHANGED <<alg, ND, sigmaref, rng, result, first>>
    /\ UNCHANGED v1vars

\* The scan moves on after the body of the inner loop at (start_i, start_j),
\* with sc strokes accepted: the next column, or, the row being finished,
\* the outer loop's test and the next row.
ScanOn(sc) ==
    IF start_j + 1 <= Nx(ND) - 2
    THEN /\ start_j' = start_j + 1
         /\ start_i' = start_i
         /\ pc' = "v2_scan"
    ELSE IF CapReached(sc, ND) \/ start_i + 1 > Nx(ND) - 2
    THEN /\ pc' = "v2_end"
         /\ UNCHANGED <<start_i, start_j>>
    ELSE /\ start_i' = start_i + 1
         /\ start_j' = 1
         /\ pc' = "v2_scan"

\* One iteration of the inner scan loop up to the call of generate_single_path.
V2Scan ==
    /\ pc = "v2_scan"
    /\ UNCHANGED <<alg, ND, sigmaref, call, A, F, theta, term, visited, all_paths,
                   stroke_count, strokes, rng, fwd, coin, result, first>>
    /\ IF CapReached(stroke_count, ND)
       THEN /\ pc' = "v2_end"
            /\ UNCHANGED <<start_i, start_j, path, isv, jsv, step>>
       ELSE IF visited[<<start_i, start_j>>] # 0 \/ A[<<start_i, start_j>>] = 0
       THEN /\ ScanOn(stroke_count)
            /\ UNCHANGED <<path, isv, jsv, step>>
       ELSE /\ path' = <<>>
            /\ isv' = start_i
            /\ jsv' = start_j
            /\ step' = 0
            /\ pc' = IF 0 < V2Ns(ND) \div 4 THEN "v2_grow" ELSE "v2_stroke"
            /\ UNCHANGED <<start_i, start_j>>

\* One iteration of the for loop of generate_single_path.
V2Grow ==
    /\ pc = "v2_grow"
    /\ UNCHANGED <<alg, ND, sigmaref, call, A, F, theta, term, result, first>>
    /\ UNCHANGED v2vars
    /\ IF \/ isv <= 0 \/ isv >= Nx(ND) - 1 \/ jsv <= 0 \/ jsv >= Nx(ND) - 1
          \/ visited[<<isv, jsv>>] # 0 \/ A[<<isv, jsv>>] = 0
       THEN /\ pc' = "v2_stroke"
            /\ UNCHANGED <<path, isv, jsv, step, rng, fwd, coin>>
       ELSE LET p1 == Append(path, <<isv, jsv>>)
                next_moves == get_valid_moves(isv, jsv, A, visited, ND)
                more == IF step + 1 < V2Ns(ND) \div 4 THEN "v2_grow" ELSE "v2_stroke"
            IN  /\ path' = p1
                /\ IF next_moves = <<>>
                   THEN /\ pc' = "v2_stroke"
                        /\ UNCHANGED <<isv, jsv, step, rng, fwd, coin>>
                   ELSE /\ step' = step + 1
                        /\ pc' = more
                        /\ IF Len(next_moves) > 1
                           THEN \E d \in Pull(rng) :
                                IF toss(d.u, sigmaref) = 1
                                THEN \E e \in Pull(d.s) :
                                     LET m == next_moves[RandIndex(e.u, Len(next_moves)) + 1]
                                     IN  /\ isv' = m[1]
                                         /\ jsv' = m[2]
                                         /\ rng' = e.s
                                         /\ fwd' = fwd
                                         /\ coin' = 1
                                ELSE /\ isv' = next_moves[1][1]
                                     /\ jsv' = next_moves[1][2]
                                     /\ rng' = d.s
                                     /\ fwd' = FALSE
                                     /\ coin' = 0
                           ELSE /\ isv' = next_moves[1][1]
                                /\ jsv' = next_moves[1][2]
                                /\ coin' = -1
                                /\ UNCHANGED <<rng, fwd>>

\* generate_single_path has returned: the stroke is accepted or discarded,
\* and the scan moves on.
V2Stroke ==
    /\ pc = "v2_stroke"
    /\ UNCHANGED <<alg, ND, sigmaref, call, A, F, path, isv, jsv, theta, step, term,
                   rng, fwd, coin, result, first>>
    /\ IF Accepted(path)
       THEN /\ all_paths' = all_paths \o path
            /\ stroke_count' = stroke_count + 1
            /\ visited' = MarkVisited(visited, path, ND)
            /\ strokes' = Append(strokes, Range(path))
            /\ ScanOn(stroke_count + 1)
       ELSE /\ UNCHANGED <<all_paths, stroke_count, visited, strokes>>
            /\ ScanOn(stroke_count)

V2Return ==
    /\ pc = "v2_end"
    /\ result' = ResultOf(all_paths, ND)
    /\ pc' = "returned"
    /\ UNCHANGED <<alg, ND, sigmaref, call, A, F, rng, fwd, coin, first>>
    /\ UNCHANGED v1vars
    /\ UNCHANGED v2vars

----------------------------------------------------------------------------
\* The second call on the same instance reads the stream from its start.

Rewind ==
    /\ pc = "returned"
    /\ call = 1
    /\ first' = result
    /\ rng' = [rng EXCEPT !.rd = 0]
    /\ pc' = "idle"
    /\ UNCHANGED <<alg, ND, sigmaref, call, A, F, fwd, coin, result>>
    /\ UNCHANGED v1vars
    /\ UNCHANGED v2vars

----------------------------------------------------------------------------

InitFor(algs, sizes, frees) ==
    /\ alg \in algs
    /\ ND \in sizes
    /\ sigmaref \in Sigmas
    /\ call = 0
    /\ pc = "idle"
    /\ A = <<>>
    /\ F = <<>>
    /\ path = <<>>
    /\ isv = 0
    /\ jsv = 0
    /\ theta = 0
    /\ step = 0
    /\ term = "none"
    /\ visited = <<>>
    /\ all_paths = <<>>
    /\ stroke_count = 0
    /\ start_i = 0
    /\ start_j = 0
    /\ strokes = <<>>
    /\ rng \in [tape : {<<>>}, rd : {0}, free : frees, tail : UVals]
    /\ fwd = TRUE
    /\ coin = -1
    /\ result = <<>>
    /\ first = <<>>

Init == InitFor({"V1", "V2"}, GridSizes, {MaxFree})

Next ==
    \/ V1Begin
    \/ V1Iter
    \/ V1Return
    \/ V2Begin
    \/ V2Scan
    \/ V2Grow
    \/ V2Stroke
    \/ V2Return
    \/ Rewind

Spec == Init /\ [][Next]_vars

----------------------------------------------------------------------------
\* The walk of KolamDrawV1 alone on the largest grid the application allows,
\* with at most two free draws before the repeated one.

InitMax == InitFor({"V1"}, {MAX_GRID_SIZE}, {0, 1, 2})

NextV1 ==
    \/ V1Begin
    \/ V1Iter
    \/ V1Return
    \/ Rewind

SpecMax == InitMax /\ [][NextV1]_vars

----------------------------------------------------------------------------
\* Properties

\* The diamond predicate of the data model, written out.
InDiamond(p, n) == Abs(p[1] - n \div 2) + Abs(p[2] - n \div 2) <= n \div 2

\* Strictly interior lattice point.
Interior(p, n) == 1 <= p[1] /\ p[1] <= n - 1 /\ 1 <= p[2] /\ p[2] <= n - 1

\* C1: every point of the path recorded and returned by KolamDrawV1.generate_path
\* satisfies the diamond predicate |i - ND div 2| + |j - ND div 2| <= ND div 2.
C1_V1PathInDiamond ==
    alg = "V1" =>
        /\ \A k \in 1..Len(path) : InDiamond(path[k], ND)
        /\ pc = "returned" => \A k \in 1..Len(result) : InDiamond(result[k], ND)

\* A V1 walk on a valid grid that recorded several points and then stopped
\* because the advanced position failed the boundary check.
C1_Witness ==
    /\ alg = "V1"
    /\ ND >= MIN_GRID_SIZE
    /\ pc = "returned"
    /\ term = "OutOfBounds"
    /\ Len(result) > 3
    /\ ~InDiamond(<<isv, jsv>>, ND)

\* C2: within one stroke grown by KolamDrawV2.generate_single_path no cell
\* appears twice.
C2_StrokeNeverRepeatsCell ==
    alg = "V2" =>
        \A a, b \in 1..Len(path) : a # b => path[a] # path[b]

\* C3: no two accepted strokes of one KolamDrawV2.generate_path run share a
\* cell: the visited cells are exactly the cells of the accepted strokes, and
\* neither the start cell nor any cell of the stroke being grown is marked
\* visited.
C3_StrokesShareNoCell ==
    alg = "V2" /\ pc # "idle" =>
        /\ \A a, b \in 1..Len(strokes) : a # b => strokes[a] \cap strokes[b] = {}
        /\ \A c \in Grid(ND) : visited[c] # 0 <=> \E a \in 1..Len(strokes) : c \in strokes[a]
        /\ pc \in {"v2_grow", "v2_stroke"} =>
               /\ visited[<<start_i, start_j>>] = 0
               /\ \A k \in 1..Len(path) : visited[path[k]] = 0

\* A finished V2 run with at least two accepted strokes, the later one grown
\* next to cells of the earlier one.
C3_Witness ==
    /\ alg = "V2"
    /\ pc = "returned"
    /\ Len(strokes) >= 2
    /\ \E c \in strokes[1], d \in strokes[2] :
           Abs(c[1] - d[1]) <= 1 /\ Abs(c[2] - d[2]) <= 1

\* C4 as stated: the matrices of KolamDrawV2.ResetGateMatrix are 0 on the
\* border and on both diagonals, and the gate matrix is positive elsewhere.
C4_DiagonalsClosed ==
    alg = "V2" /\ pc # "idle" =>
        \A c \in Grid(ND) :
            IF OnBorder(c, ND) \/ c[2] = c[1] \/ c[2] = ND - c[1]
            THEN A[c] = 0 /\ F[c] = 0
            ELSE A[c] > 0

\* C4 amended: the gate matrix is 0 on the border, 1 (open) on both diagonals
\* (i,i) and (i,ND-i), 1 <= i <= ND-1, and positive on every other interior
\* cell; the flag matrix is 0 on the border and on both diagonals.
C4_DiagonalsOpenOne ==
    alg = "V2" /\ pc # "idle" =>
        \A c \in Grid(ND) :
            IF OnBorder(c, ND) THEN A[c] = 0 /\ F[c] = 0
            ELSE IF c[2] = c[1] \/ c[2] = ND - c[1] THEN A[c] = 1 /\ F[c] = 0
            ELSE A[c] > 0

\* A V2 run on a valid grid whose scan starts on the open diagonal cell (1,1)
\* and whose last interior diagonal cell is open too.
C4_Witness ==
    /\ alg = "V2"
    /\ ND >= MIN_GRID_SIZE
    /\ pc = "v2_grow"
    /\ <<start_i, start_j>> = <<1, 1>>
    /\ A[<<1, 1>>] = 1
    /\ A[<<ND - 1, ND - 1>>] = 1
    /\ A[<<ND - 1, 1>>] = 1

\* C5: KolamDrawV2.generate_path never holds more than min(10, ND) accepted
\* strokes, and no stroke is being grown or appended once that many are
\* accepted.
C5_StrokeCap ==
    alg = "V2" =>
        /\ stroke_count <= (IF ND < 10 THEN ND ELSE 10)
        /\ Len(strokes) = stroke_count
        /\ pc \in {"v2_grow", "v2_stroke"} =>
               stroke_count < (IF ND < 10 THEN ND ELSE 10)

\* The scan stands on an open, unvisited cell with min(10, ND) strokes
\* accepted: the cap, not the grid, ends the run.
C5_Witness ==
    /\ alg = "V2"
    /\ ND >= MIN_GRID_SIZE
    /\ pc = "v2_scan"
    /\ stroke_count = (IF ND < 10 THEN ND ELSE 10)
    /\ visited[<<start_i, start_j>>] = 0
    /\ A[<<start_i, start_j>>] > 0

\* C6: V1 runs at most Ns = (2*ND^2+1)*5 loop iterations and returns at most
\* Ns points; each V2 stroke growth runs at most Ns div 4 iterations with
\* Ns = 2*(ND^2+1)+5, and V2 returns at most (Ns div 4) * min(10, ND) points;
\* until the call has returned a step is always possible.
C6_StepBounds ==
    /\ alg = "V1" =>
           /\ step <= (2 * ND * ND + 1) * 5
           /\ Len(path) <= (2 * ND * ND + 1) * 5
           /\ pc = "returned" => Len(result) <= (2 * ND * ND + 1) * 5
    /\ alg = "V2" =>
           /\ step <= (2 * (ND * ND + 1) + 5) \div 4
           /\ Len(path) <= (2 * (ND * ND + 1) + 5) \div 4
           /\ Len(all_paths) <=
                  ((2 * (ND * ND + 1) + 5) \div 4) * (IF ND < 10 THEN ND ELSE 10)
           /\ pc = "returned" =>
                  Len(result) <=
                      ((2 * (ND * ND + 1) + 5) \div 4) * (IF ND < 10 THEN ND ELSE 10)
    /\ pc # "returned" => ENABLED Next

\* A V2 run that returned the longest path its bounds allow.
C6_Witness ==
    /\ alg = "V2"
    /\ ND >= MIN_GRID_SIZE
    /\ pc = "returned"
    /\ Len(result) = ((2 * (ND * ND + 1) + 5) \div 4) * (IF ND < 10 THEN ND ELSE 10)

\* C7: generate_path of either walker never returns an empty sequence, and a
\* run that recorded no point returns exactly the single point
\* (ND div 2, ND div 2).
C7_NonEmptyResult ==
    pc = "returned" =>
        /\ result # <<>>
        /\ (IF alg = "V1" THEN path ELSE all_paths) = <<>> =>
               result = <<<<ND \div 2, ND \div 2>>>>

\* A V2 run whose scan accepted no stroke and returned the centre.
C7_Witness ==
    /\ alg = "V2"
    /\ pc = "returned"
    /\ stroke_count = 0
    /\ all_paths = <<>>
    /\ result = <<<<ND \div 2, ND \div 2>>>>

\* C8: the second call of generate_path on the same instance, with the same
\* complexity and reading the same stream of random draws, returns the path
\* the first call returned.
C8_SameDrawsSamePath ==
    call = 2 /\ pc = "returned" => result = first

\* A second V2 call that read recorded draws and returned several strokes,
\* the same as the first call.
C8_Witness ==
    /\ alg = "V2"
    /\ call = 2
    /\ pc = "returned"
    /\ rng.rd >= 2
    /\ stroke_count >= 2
    /\ result = first

\* C9: on the 20 x 20 grid, a V1 walk all of whose tosses succeeded ends by
\* the loop-detection break, with more than 10 points recorded and the
\* advanced position equal to the first point of the path.
C9_ForwardEndsByLoopDetection ==
    alg = "V1" /\ ND = 20 /\ fwd /\ pc \in {"v1_end", "returned"} =>
        /\ term = "LoopDetected"
        /\ Len(path) > 10
        /\ <<isv, jsv>> = path[1]

\* An always-forward walk on the 20 x 20 grid that has returned.
C9_Witness ==
    /\ alg = "V1"
    /\ ND = 20
    /\ fwd
    /\ pc = "returned"
    /\ term = "LoopDetected"
    /\ Len(result) = 12

\* C10 as stated: every point recorded or returned by either walker
\* satisfies the diamond predicate.
C10_AllInDiamond ==
    /\ \A k \in 1..Len(path) : InDiamond(path[k], ND)
    /\ \A k \in 1..Len(all_paths) : InDiamond(all_paths[k], ND)
    /\ pc = "returned" => \A k \in 1..Len(result) : InDiamond(result[k], ND)

\* C10 amended: every point recorded or returned by V1 satisfies the diamond
\* predicate; every point recorded or returned by V2 is strictly interior,
\* 1 <= i, j <= ND - 1.
C10_V1DiamondV2Interior ==
    /\ alg = "V1" =>
           /\ \A k \in 1..Len(path) : InDiamond(path[k], ND)
           /\ pc = "returned" => \A k \in 1..Len(result) : InDiamond(result[k], ND)
    /\ alg = "V2" =>
           /\ \A k \in 1..Len(path) : Interior(path[k], ND)
           /\ \A k \in 1..Len(all_paths) : Interior(all_paths[k], ND)
           /\ pc = "returned" => \A k \in 1..Len(result) : Interior(result[k], ND)

\* A V2 run that returned an interior point outside the diamond.
C10_Witness ==
    /\ alg = "V2"
    /\ pc = "returned"
    /\ \E k \in 1..Len(result) : Interior(result[k], ND) /\ ~InDiamond(result[k], ND)

\* C11: a V2 stroke attempt that returned 3 or fewer points leaves the
\* accumulated path, the visited matrix and the stroke count unchanged; within
\* a call the stroke count changes only by the step that appends a stroke
\* of more than 3 points, and then by exactly one.
C11_ShortStrokeDiscarded ==
    [][alg = "V2" =>
          /\ pc = "v2_stroke" /\ Len(path) <= 3 =>
                 /\ all_paths' = all_paths
                 /\ visited' = visited
                 /\ stroke_count' = stroke_count
          /\ pc # "idle" /\ stroke_count' # stroke_count =>
                 /\ pc = "v2_stroke"
                 /\ Len(path) > 3
                 /\ stroke_count' = stroke_count + 1
                 /\ all_paths' = all_paths \o path
          /\ pc # "idle" /\ all_paths' # all_paths =>
                 stroke_count' = stroke_count + 1]_vars

\* A one-point attempt has been discarded after an earlier stroke was
\* accepted: the scan has moved on, and the attempt's cell is not marked.
C11_Witness ==
    /\ alg = "V2"
    /\ ND >= MIN_GRID_SIZE
    /\ pc \in {"v2_scan", "v2_end"}
    /\ stroke_count >= 1
    /\ Len(path) \in 1..3
    /\ visited[path[1]] = 0
    /\ path[1] \notin Range(all_paths)

\* The fixed scan order of the move candidates.
ScanOrder ==
    <<<<0, 1>>, <<1, 0>>, <<0, -1>>, <<-1, 0>>, <<1, 1>>, <<-1, -1>>, <<1, -1>>, <<-1, 1>>>>

\* The valid moves from cell (i, j), in scan order: the 8-neighbours that are
\* strictly interior, not marked visited and open in the gate matrix.
Candidates(i, j) ==
    LET ok(c) == Interior(c, ND) /\ visited[c] = 0 /\ A[c] > 0
    IN  SelectSeq([k \in 1..8 |-> <<i + ScanOrder[k][1], j + ScanOrder[k][2]>>], ok)

\* C12: every growth step of a V2 stroke moves to a valid move; when exactly
\* one valid move exists or the coin fails it moves to the first valid move
\* in scan order, and it moves to another one only when more than one valid
\* move exists and the coin succeeded.
C12_MoveSelection ==
    [][alg = "V2" /\ pc = "v2_grow" /\ step' = step + 1 =>
          LET c == Candidates(isv, jsv)
              nxt == <<isv', jsv'>>
          IN  /\ \E k \in 1..Len(c) : nxt = c[k]
              /\ (Len(c) = 1 \/ coin' = 0) => nxt = c[1]
              /\ nxt # c[1] => Len(c) > 1 /\ coin' = 1]_vars

\* A growth step whose coin succeeded has moved to a valid move other than
\* the first one in scan order.
C12_Witness ==
    /\ alg = "V2"
    /\ ND >= MIN_GRID_SIZE
    /\ pc = "v2_grow"
    /\ path # <<>>
    /\ step = Len(path)
    /\ coin = 1
    /\ LET c == Candidates(path[Len(path)][1], path[Len(path)][2])
       IN  /\ Len(c) > 1
           /\ <<isv, jsv>> # c[1]
           /\ \E k \in 2..Len(c) : <<isv, jsv>> = c[k]

\* The offsets indexed by theta.
DiagonalOffsets == <<<<1, 1>>, <<1, -1>>, <<-1, -1>>, <<-1, 1>>>>

\* C13: the V1 walk starts at (ND div 2, ND div 2) with theta = 0; every
\* iteration that records a cell turns theta by +1 mod 4 on coin success and by
\* -1 mod 4 on coin failure when the cell's gate value is positive, keeps theta
\* when it is 0, and advances by the offset indexed by the updated theta. So
\* consecutive path points differ by a diagonal offset, and through an open
\* cell the direction is neither repeated nor reversed.
C13_V1StepLaw ==
    [][alg = "V1" =>
          /\ pc = "idle" /\ pc' = "v1_loop" =>
                 /\ isv' = ND \div 2
                 /\ jsv' = ND \div 2
                 /\ theta' = 0
          /\ pc = "v1_loop" /\ Len(path') = Len(path) + 1 =>
                 LET open == A[<<isv, jsv>>] > 0
                 IN  /\ path'[Len(path')] = <<isv, jsv>>
                     /\ open <=> coin' \in {0, 1}
                     /\ open /\ coin' = 1 => theta' = (theta + 1) % 4
                     /\ open /\ coin' = 0 => theta' = (theta + 3) % 4
                     /\ ~open => theta' = theta
                     /\ isv' = isv + DiagonalOffsets[theta' + 1][1]
                     /\ jsv' = jsv + DiagonalOffsets[theta' + 1][2]
                     /\ open => theta' \notin {theta, (theta + 2) % 4}
                     /\ \A k \in 1..(Len(path') - 1) :
                            /\ Abs(path'[k + 1][1] - path'[k][1]) = 1
                            /\ Abs(path'[k + 1][2] - path'[k][2]) = 1]_vars

\* The walk has turned at an open cell and then passed a closed cell without
\* turning.
C13_Witness ==
    /\ alg = "V1"
    /\ pc = "v1_loop"
    /\ Len(path) >= 3
    /\ coin = -1
    /\ LET n == Len(path)
           last == <<isv - path[n][1], jsv - path[n][2]>>
           prev == <<path[n][1] - path[n - 1][1], path[n][2] - path[n - 1][2]>>
           before == <<path[n - 1][1] - path[n - 2][1], path[n - 1][2] - path[n - 2][2]>>
       IN  /\ A[path[n]] = 0
           /\ A[path[n - 1]] > 0
           /\ last = prev
           /\ prev # before
           /\ prev # <<-before[1], -before[2]>>

\* floor(Ns / 4) with Ns = 2 * (ND^2 + 1) + 5
FullStroke == (2 * (ND * ND + 1) + 5) \div 4

\* C14: for a valid grid size every V2 stroke attempt returns either exactly
\* one point, when its start cell has no valid move, or exactly floor(Ns/4)
\* points; so the accumulated path holds floor(Ns/4) points per accepted
\* stroke and the returned path length is a multiple of floor(Ns/4).
C14_StrokeAllOrNothing ==
    alg = "V2" /\ ND \in MIN_GRID_SIZE..MAX_GRID_SIZE =>
        /\ pc = "v2_stroke" =>
               /\ Len(path) \in {1, FullStroke}
               /\ Len(path) = 1 <=> Candidates(path[1][1], path[1][2]) = <<>>
        /\ pc \in {"v2_scan", "v2_grow", "v2_stroke", "v2_end", "returned"} =>
               Len(all_paths) = stroke_count * FullStroke
        /\ pc = "returned" => Len(result) % FullStroke = 0

\* Both outcomes have happened in one call: a full stroke was accepted, and a
\* later attempt has returned its start cell alone.
C14_Witness ==
    /\ alg = "V2"
    /\ ND \in MIN_GRID_SIZE..MAX_GRID_SIZE
    /\ pc = "v2_stroke"
    /\ stroke_count >= 1
    /\ Len(all_paths) = stroke_count * FullStroke
    /\ Len(path) = 1
    /\ Candidates(path[1][1], path[1][2]) = <<>>

\* C15: for a valid grid size KolamDrawV2.generate_path accepts at least one
\* stroke, the first accepted stroke starts at the scan's first cell (1,1),
\* and the returned path is the accumulated one: it begins with (1,1) and is
\* never the single-point centre fallback.
C15_V2FallbackUnreachable ==
    alg = "V2" /\ ND \in MIN_GRID_SIZE..MAX_GRID_SIZE =>
        /\ pc \in {"v2_end", "returned"} => stroke_count >= 1
        /\ pc # "idle" /\ stroke_count >= 1 =>
               /\ all_paths # <<>>
               /\ all_paths[1] = <<1, 1>>
        /\ pc # "idle" /\ stroke_count = 0 =>
               /\ all_paths = <<>>
               /\ pc \in {"v2_scan", "v2_grow", "v2_stroke"}
               /\ <<start_i, start_j>> = <<1, 1>>
        /\ pc = "returned" =>
               /\ result = all_paths
               /\ result[1] = <<1, 1>>
               /\ Len(result) > 1
               /\ result # <<<<ND \div 2, ND \div 2>>>>

\* A call on a valid grid size has returned a path of several strokes that
\* begins with (1,1).
C15_Witness ==
    /\ alg = "V2"
    /\ ND \in MIN_GRID_SIZE..MAX_GRID_SIZE
    /\ pc = "returned"
    /\ stroke_count >= 2
    /\ result[1] = <<1, 1>>
    /\ Len(result) > 1

====
